---- MODULE Spec2Model ----
(***************************************************************************)
(* stem.connection: the PROTOCOLINFO reply parser                          *)
(* (ProtocolInfoResponse.convert / _parse_message), the cookie path        *)
(* expansion (_expand_cookie_path), the PROTOCOLINFO queries               *)
(* (get_protocolinfo_by_port / get_protocolinfo_by_socket) and the three   *)
(* authentication handshakes (authenticate_none / _password / _cookie).    *)
(*                                                                         *)
(* Text is modelled as a sequence of one-character strings, so that        *)
(* startswith, split, isdigit, int, the KEY=VALUE tokenizer and the hex    *)
(* encoding are computed rather than assumed.                              *)
(***************************************************************************)
EXTENDS Integers, Sequences, FiniteSets, TLC

VARIABLES
  op,                       \* the entry point that was called
  converts,                 \* calls of convert made on the message so far
  pc,                       \* position inside the running function
  lines,                    \* content of the message (one text per line)
  msgClass,                 \* class of the message object
  idx,                      \* index of the next line of "for line in self"
  protocol_version,         \* self.protocol_version
  tor_version,              \* self.tor_version
  cookie_path,              \* self.cookie_path
  auth_methods,             \* self.auth_methods
  unknown_auth_methods,     \* self.unknown_auth_methods
  local_auth_methods,       \* the local list auth_methods of _parse_message
  local_unknown_auth_methods, \* the local list unknown_auth_methods
  error,                    \* the exception that left the entry point
  log,                      \* LOGGER calls, in order
  sys,                      \* the process table the pid resolvers look at
  resolverLog,              \* the pid resolver calls, in order
  control_addr,             \* get_protocolinfo_by_port's control_addr
  get_socket,               \* the get_socket argument
  socket,                   \* state of control_socket
  sent,                     \* commands sent over the transport, in order
  recvs,                    \* number of recv() calls on the transport
  returned,                 \* what the entry point returned
  wirePath,                 \* the cookie path as the AUTH line carried it
  password,                 \* authenticate_password's password
  file,                     \* the file at cookie_path of authenticate_cookie
  auth_cookie_size,         \* the local auth_cookie_size
  auth_cookie_contents,     \* the local auth_cookie_contents
  handle,                   \* state of auth_cookie_file
  reads,                    \* number of read() calls on the cookie file
  auth_response,            \* the reply to AUTHENTICATE
  swaps                     \* times another process replaced the cookie file

vars == <<op, converts, pc, lines, msgClass, idx, protocol_version, tor_version,
          cookie_path, auth_methods, unknown_auth_methods, local_auth_methods,
          local_unknown_auth_methods, error, log, sys, resolverLog,
          control_addr, get_socket, socket, sent, recvs, returned, wirePath,
          password, file, auth_cookie_size, auth_cookie_contents, handle,
          reads, auth_response, swaps>>

parseVars == <<lines, msgClass, idx, protocol_version, tor_version,
               cookie_path, auth_methods, unknown_auth_methods,
               local_auth_methods, local_unknown_auth_methods, log,
               resolverLog, wirePath>>

queryVars == <<control_addr, get_socket, socket, returned>>

authVars == <<password, file, auth_cookie_size, auth_cookie_contents, handle,
              reads, auth_response, swaps>>

----------------------------------------------------------------------------
(* Values *)

\* An attribute that was never assigned (reading it raises AttributeError).
Unassigned == [tag |-> "unassigned"]

\* Python's None.
None == [tag |-> "None"]

\* Any other Python value.
Val(v) == [tag |-> "val", v |-> v]

IsVal(x) == x.tag = "val"

----------------------------------------------------------------------------
(* Characters and text *)

SP == " "
DQ == "\""
BS == "\\"

Digits == {"0", "1", "2", "3", "4", "5", "6", "7", "8", "9"}

K_PROTOCOLINFO == <<"P","R","O","T","O","C","O","L","I","N","F","O">>
K_AUTH == <<"A","U","T","H">>
K_VERSION == <<"V","E","R","S","I","O","N">>
K_METHODS == <<"M","E","T","H","O","D","S">>
K_COOKIEFILE == <<"C","O","O","K","I","E","F","I","L","E">>
K_Tor == <<"T","o","r">>
K_OK == <<"O","K">>
K_NULL == <<"N","U","L","L">>
K_HASHEDPASSWORD == <<"H","A","S","H","E","D","P","A","S","S","W","O","R","D">>
K_COOKIE == <<"C","O","O","K","I","E">>
K_AUTHENTICATE == <<"A","U","T","H","E","N","T","I","C","A","T","E">>

\* str.startswith
StartsWith(s, prefix) ==
  /\ Len(s) >= Len(prefix)
  /\ SubSeq(s, 1, Len(prefix)) = prefix

\* str.find(c, from), 1-based; 0 when c does not occur (Python: -1)
Find(s, c, from) ==
  LET hits == {i \in from..Len(s) : s[i] = c}
  IN  IF hits = {} THEN 0 ELSE CHOOSE i \in hits : \A j \in hits : i <= j

\* str.lstrip
RECURSIVE LStrip(_)
LStrip(s) == IF s # <<>> /\ Head(s) = SP THEN LStrip(Tail(s)) ELSE s

\* str.split(sep): the pieces between the separators, empty pieces included
RECURSIVE Split(_, _)
Split(s, sep) ==
  LET p == Find(s, sep, 1)
  IN  IF p = 0 THEN <<s>>
      ELSE <<SubSeq(s, 1, p - 1)>> \o Split(SubSeq(s, p + 1, Len(s)), sep)

\* str.isdigit: non-empty and decimal digits only
IsDigit(s) == s # <<>> /\ \A i \in 1..Len(s) : s[i] \in Digits

DigitValue(c) ==
  CASE c = "0" -> 0 [] c = "1" -> 1 [] c = "2" -> 2 [] c = "3" -> 3
    [] c = "4" -> 4 [] c = "5" -> 5 [] c = "6" -> 6 [] c = "7" -> 7
    [] c = "8" -> 8 [] c = "9" -> 9

\* int(s) of a digit string
RECURSIVE IntOf(_)
IntOf(s) ==
  IF s = <<>> THEN 0
  ELSE 10 * IntOf(SubSeq(s, 1, Len(s) - 1)) + DigitValue(s[Len(s)])

----------------------------------------------------------------------------
(* stem.socket.ControlLine: the tokenizer of one reply line.  A line is its *)
(* text plus the remainder that was not popped yet.                        *)

\* ControlLine.is_empty
is_empty(remainder) == remainder = <<>>

\* the positions of the first two quotes, 0 where there is none; with
\* escaped, a quote that follows a backslash does not count
NextQuote(s, from, escaped) ==
  LET hits == {i \in from..Len(s) :
                 /\ s[i] = DQ
                 /\ (escaped /\ i >= 2 => s[i - 1] # BS)}
  IN  IF hits = {} THEN 0 ELSE CHOOSE i \in hits : \A j \in hits : i <= j

get_quote_indices(s, escaped) ==
  LET start == NextQuote(s, 1, escaped)
      end == IF start = 0 THEN 0 ELSE NextQuote(s, start + 1, escaped)
  IN  <<start, end>>

\* the backslash escapes of a quoted value
RECURSIVE Unescape(_)
Unescape(s) ==
  IF s = <<>> THEN <<>>
  ELSE IF Len(s) >= 2 /\ s[1] = BS /\ s[2] \in {DQ, BS}
       THEN <<s[2]>> \o Unescape(SubSeq(s, 3, Len(s)))
       ELSE <<s[1]>> \o Unescape(Tail(s))

\* one entry off the front of a non-empty remainder: the text up to the
\* first space, or the quoted text
parse_entry(s, quoted, escaped) ==
  LET q == get_quote_indices(s, escaped)
      sp == Find(s, SP, 1)
      raw == IF quoted THEN SubSeq(s, 2, q[2] - 1)
             ELSE IF sp = 0 THEN s ELSE SubSeq(s, 1, sp - 1)
      rest == IF quoted THEN SubSeq(s, q[2] + 1, Len(s))
              ELSE IF sp = 0 THEN <<>> ELSE SubSeq(s, sp + 1, Len(s))
  IN  [entry |-> IF escaped THEN Unescape(raw) ELSE raw,
       remainder |-> LStrip(rest)]

\* ControlLine.pop
pop(remainder) == parse_entry(remainder, FALSE, FALSE)

\* the KEY= at the front of the remainder: the longest run of non-space
\* characters that is followed by "="
key_match(s) ==
  LET sp == Find(s, SP, 1)
      run == IF sp = 0 THEN Len(s) ELSE sp - 1
      eqs == {i \in 2..run : s[i] = "="}
      end == IF eqs = {} THEN 0 ELSE CHOOSE i \in eqs : \A j \in eqs : j <= i
  IN  [found |-> end # 0,
       key |-> IF end = 0 THEN <<>> ELSE SubSeq(s, 1, end - 1),
       end |-> end]

\* ControlLine.is_next_mapping(key, quoted, escaped)
is_next_mapping(remainder, key, quoted, escaped) ==
  LET m == key_match(remainder)
      q == get_quote_indices(remainder, escaped)
  IN  /\ m.found
      /\ m.key = key
      /\ quoted => (q[1] = m.end + 1 /\ q[2] # 0)

\* ControlLine.pop_mapping(quoted, escaped): the value and what is left
pop_mapping(remainder, quoted, escaped) ==
  LET m == key_match(remainder)
  IN  parse_entry(SubSeq(remainder, m.end + 1, Len(remainder)), quoted, escaped)

----------------------------------------------------------------------------
(* stem.version.Version: dotted decimal numbers, major.minor.micro[.patch] *)

version_ok(s) ==
  LET parts == Split(s, ".")
  IN  /\ Len(parts) \in {3, 4}
      /\ \A i \in 1..Len(parts) : IsDigit(parts[i])

Version(s) == [i \in 1..Len(Split(s, ".")) |-> IntOf(Split(s, ".")[i])]

----------------------------------------------------------------------------
(* AuthMethod and the exceptions *)

AuthMethod == [NONE |-> "NONE", PASSWORD |-> "PASSWORD", COOKIE |-> "COOKIE",
               UNKNOWN |-> "UNKNOWN"]

NoError == [type |-> "None", why |-> ""]
ProtocolError(why) == [type |-> "ProtocolError", why |-> why]
SocketError(why) == [type |-> "SocketError", why |-> why]
IndexError == [type |-> "IndexError", why |-> "list index out of range"]
TypeError == [type |-> "TypeError", why |-> "not a ControlMessage"]

\* stem.socket.ControllerError and its subclasses
IsControllerError(e) == e.type \in {"ProtocolError", "SocketError"}

QueryOps == {"get_protocolinfo_by_port", "get_protocolinfo_by_socket"}

\* where an exception raised inside the try block of a query goes: a
\* ControllerError to the except clause, anything else out of the function
RaisedTo(e) ==
  IF op \in QueryOps /\ IsControllerError(e) THEN "except" ELSE "failed"

----------------------------------------------------------------------------
(* _expand_cookie_path *)

\* stem.util.system.is_relative_path
is_relative_path(path) == ~StartsWith(path, <<"/">>)

\* stem.util.system.expand_path(path, cwd) of a relative path
expand_path(path, cwd) == cwd \o <<"/">> \o path

\* the condition under which the pid resolver is called
NeedsExpansionNoCheck(cp) == IsVal(cp) /\ cp.v # <<>>
NeedsExpansion(cp) ==
  IsVal(cp) /\ cp.v # <<>> /\ is_relative_path(cp.v)

\* pid_resolver(pid_resolution_arg): 0 when no pid is found
ResolvePid(resolver) ==
  CASE resolver = "get_pid_by_name" -> sys.byName
    [] resolver = "get_pid_by_port" -> sys.byPort
    [] resolver = "get_pid_by_open_file" -> sys.byFile

\* stem.util.system.get_cwd(pid): the empty text when there is none
get_cwd(pid) == sys.cwd[pid]

\* the IOError raised inside the try block, "" when none is
ExpandFailurePidOnly(resolver) ==
  IF ResolvePid(resolver) = 0 THEN "pid lookup failed" ELSE ""
ExpandFailure(resolver) ==
  IF ResolvePid(resolver) = 0 THEN "pid lookup failed"
  ELSE IF get_cwd(ResolvePid(resolver)) = <<>> THEN "cwd lookup failed"
  ELSE ""

\* the value _expand_cookie_path leaves in cookie_path
ExpandedFirstCwd(cp, resolver) ==
  IF NeedsExpansion(cp) /\ ExpandFailure(resolver) = ""
  THEN Val(expand_path(cp.v, get_cwd(1)))
  ELSE cp
Expanded(cp, resolver) ==
  IF NeedsExpansion(cp) /\ ExpandFailure(resolver) = ""
  THEN Val(expand_path(cp.v, get_cwd(ResolvePid(resolver))))
  ELSE cp

\* the resolver calls _expand_cookie_path adds
ResolverCalls(cp, resolver) ==
  IF NeedsExpansion(cp) THEN <<resolver>> ELSE <<>>

\* the LOGGER.debug call of the except clause
ExpandLog(cp, resolver) ==
  IF NeedsExpansion(cp) /\ ExpandFailure(resolver) # ""
  THEN <<[level |-> "debug", about |-> ExpandFailure(resolver)]>>
  ELSE <<>>

----------------------------------------------------------------------------
(* ProtocolInfoResponse.convert and _parse_message *)

\* an exception leaves the running function
Raise(e) ==
  /\ error' = e
  /\ pc' = RaisedTo(e)

\* isinstance(control_message, stem.socket.ControlMessage): the class itself
\* or its subclass ProtocolInfoResponse
IsControlMessage(class) == class \in {"ControlMessage", "ProtocolInfoResponse"}

\* convert: the isinstance test, the retyping, and the first statements of
\* _parse_message
ConvertAssignsMethods ==
  /\ pc = "convert"
  /\ converts' = converts + 1
  /\ IF IsControlMessage(msgClass)
     THEN /\ msgClass' = "ProtocolInfoResponse"
          /\ protocol_version' = None
          /\ tor_version' = None
          /\ cookie_path' = None
          /\ auth_methods' = Val(<<>>)
          /\ unknown_auth_methods' = Val(<<>>)
          /\ local_auth_methods' = <<>>
          /\ local_unknown_auth_methods' = <<>>
          /\ pc' = "sanity"
          /\ UNCHANGED error
     ELSE /\ Raise(TypeError)
          /\ UNCHANGED <<msgClass, protocol_version, tor_version, cookie_path,
                         auth_methods, unknown_auth_methods,
                         local_auth_methods, local_unknown_auth_methods>>
  /\ UNCHANGED <<op, lines, idx, log, sys, resolverLog, wirePath, sent, recvs>>
  /\ UNCHANGED <<queryVars, authVars>>
Convert ==
  /\ pc = "convert"
  /\ converts' = converts + 1
  /\ IF IsControlMessage(msgClass)
     THEN /\ msgClass' = "ProtocolInfoResponse"
          /\ protocol_version' = None
          /\ tor_version' = None
          /\ cookie_path' = None
          /\ local_auth_methods' = <<>>
          /\ local_unknown_auth_methods' = <<>>
          /\ pc' = "sanity"
          /\ UNCHANGED error
     ELSE /\ Raise(TypeError)
          /\ UNCHANGED <<msgClass, protocol_version, tor_version, cookie_path,
                         local_auth_methods, local_unknown_auth_methods>>
  /\ UNCHANGED <<op, lines, idx, auth_methods, unknown_auth_methods, log,
                 sys, resolverLog, wirePath, sent, recvs>>
  /\ UNCHANGED <<queryVars, authVars>>

\* the test of the sanity check on the first line
IsProtocolInfoReply(first) == StartsWith(first, K_PROTOCOLINFO)

\* "sanity check that we're a PROTOCOLINFO response"
SanityCheck ==
  /\ pc = "sanity"
  /\ IF lines = <<>>
     THEN Raise(IndexError) /\ UNCHANGED idx
     ELSE IF ~IsProtocolInfoReply(lines[1])
     THEN /\ Raise(ProtocolError("Message is not a PROTOCOLINFO response"))
          /\ UNCHANGED idx
     ELSE pc' = "loop" /\ idx' = 1 /\ UNCHANGED error
  /\ UNCHANGED <<op, converts, lines, msgClass, protocol_version, tor_version,
                 cookie_path, auth_methods, unknown_auth_methods,
                 local_auth_methods, local_unknown_auth_methods, log, sys,
                 resolverLog, wirePath, sent, recvs>>
  /\ UNCHANGED <<queryVars, authVars>>

\* the line the loop is at, and what is left of it after its type was popped
Line == lines[idx]
LineType == pop(Line).entry
LineRest == pop(Line).remainder

InLoop == pc = "loop" /\ idx <= Len(lines)

\* a line that is neither OK nor empty
Dispatched == InLoop /\ Line # K_OK /\ ~is_empty(Line)

loopFrame == <<op, converts, lines, msgClass, auth_methods, unknown_auth_methods, sys,
               sent, recvs>>

\* the for loop ran out of lines
Exhausted ==
  /\ pc = "loop"
  /\ idx > Len(lines)
  /\ pc' = "finalize"
  /\ UNCHANGED <<idx, protocol_version, tor_version, cookie_path,
                 local_auth_methods, local_unknown_auth_methods, error, log,
                 resolverLog, wirePath>>
  /\ UNCHANGED <<loopFrame, queryVars, authVars>>

\* if line == "OK": break
BreakContinues ==
  /\ InLoop
  /\ Line = K_OK
  /\ idx' = idx + 1
  /\ UNCHANGED <<pc, protocol_version, tor_version, cookie_path,
                 local_auth_methods, local_unknown_auth_methods, error, log,
                 resolverLog, wirePath>>
  /\ UNCHANGED <<loopFrame, queryVars, authVars>>
Break ==
  /\ InLoop
  /\ Line = K_OK
  /\ pc' = "finalize"
  /\ UNCHANGED <<idx, protocol_version, tor_version, cookie_path,
                 local_auth_methods, local_unknown_auth_methods, error, log,
                 resolverLog, wirePath>>
  /\ UNCHANGED <<loopFrame, queryVars, authVars>>

\* elif line.is_empty(): continue
BlankLine ==
  /\ InLoop
  /\ Line # K_OK
  /\ is_empty(Line)
  /\ idx' = idx + 1
  /\ UNCHANGED <<pc, protocol_version, tor_version, cookie_path,
                 local_auth_methods, local_unknown_auth_methods, error, log,
                 resolverLog, wirePath>>
  /\ UNCHANGED <<loopFrame, queryVars, authVars>>

\* why a PROTOCOLINFO line is rejected, "" when it is not
PiversionProblem(rest) ==
  IF is_empty(rest) THEN "missing"
  ELSE IF ~IsDigit(pop(rest).entry) THEN "non-numeric"
  ELSE ""

\* int(piversion)
PiversionAlwaysOne(rest) == 1
Piversion(rest) == IntOf(pop(rest).entry)

\* line_type == "PROTOCOLINFO"
LineProtocolInfo ==
  /\ Dispatched
  /\ LineType = K_PROTOCOLINFO
  /\ IF PiversionProblem(LineRest) # ""
     THEN /\ Raise(ProtocolError(PiversionProblem(LineRest)))
          /\ UNCHANGED <<idx, protocol_version, log>>
     ELSE /\ protocol_version' = Val(Piversion(LineRest))
          /\ log' = IF Piversion(LineRest) # 1
                    THEN Append(log, [level |-> "warn", about |-> "version"])
                    ELSE log
          /\ idx' = idx + 1
          /\ UNCHANGED <<pc, error>>
  /\ UNCHANGED <<tor_version, cookie_path, local_auth_methods,
                 local_unknown_auth_methods, resolverLog, wirePath>>
  /\ UNCHANGED <<loopFrame, queryVars, authVars>>


\* one name of the METHODS value: the body of "for method in ..."
AddMethodRepeatUnknown(method, acc) ==
  IF method = K_NULL
  THEN [acc EXCEPT !.auth = Append(@, AuthMethod.NONE)]
  ELSE IF method = K_HASHEDPASSWORD
  THEN [acc EXCEPT !.auth = Append(@, AuthMethod.PASSWORD)]
  ELSE IF method = K_COOKIE
  THEN [acc EXCEPT !.auth = Append(@, AuthMethod.COOKIE)]
  ELSE [auth |-> Append(acc.auth, AuthMethod.UNKNOWN),
        unknown |-> Append(acc.unknown, method)]
AddMethodSwapped(method, acc) ==
  IF method = K_NULL
  THEN [acc EXCEPT !.auth = Append(@, AuthMethod.NONE)]
  ELSE IF method = K_HASHEDPASSWORD
  THEN [acc EXCEPT !.auth = Append(@, AuthMethod.COOKIE)]
  ELSE IF method = K_COOKIE
  THEN [acc EXCEPT !.auth = Append(@, AuthMethod.PASSWORD)]
  ELSE [auth |-> IF \E i \in 1..Len(acc.auth) : acc.auth[i] = AuthMethod.UNKNOWN
                 THEN acc.auth
                 ELSE Append(acc.auth, AuthMethod.UNKNOWN),
        unknown |-> Append(acc.unknown, method)]
AddMethod(method, acc) ==
  IF method = K_NULL
  THEN [acc EXCEPT !.auth = Append(@, AuthMethod.NONE)]
  ELSE IF method = K_HASHEDPASSWORD
  THEN [acc EXCEPT !.auth = Append(@, AuthMethod.PASSWORD)]
  ELSE IF method = K_COOKIE
  THEN [acc EXCEPT !.auth = Append(@, AuthMethod.COOKIE)]
  ELSE [auth |-> IF \E i \in 1..Len(acc.auth) : acc.auth[i] = AuthMethod.UNKNOWN
                 THEN acc.auth
                 ELSE Append(acc.auth, AuthMethod.UNKNOWN),
        unknown |-> Append(acc.unknown, method)]

\* the loop over the names of the METHODS value, in order
RECURSIVE AddMethods(_, _)
AddMethods(methods, acc) ==
  IF methods = <<>> THEN acc
  ELSE AddMethods(Tail(methods), AddMethod(Head(methods), acc))

\* the test on the METHODS mapping of an AUTH line
HasMethodsUnchecked(rest) == TRUE
HasMethods(rest) == is_next_mapping(rest, K_METHODS, FALSE, FALSE)

\* line_type == "AUTH"
LineAuth ==
  /\ Dispatched
  /\ LineType = K_AUTH
  /\ IF ~HasMethods(LineRest)
     THEN /\ Raise(ProtocolError("missing METHODS"))
          /\ UNCHANGED <<idx, cookie_path, local_auth_methods,
                         local_unknown_auth_methods, log, resolverLog,
                         wirePath>>
     ELSE LET m == pop_mapping(LineRest, FALSE, FALSE)
              acc == AddMethods(Split(m.entry, ","),
                                [auth |-> local_auth_methods,
                                 unknown |-> local_unknown_auth_methods])
              infos == [i \in 1..(Len(acc.unknown) - Len(local_unknown_auth_methods))
                          |-> [level |-> "info", about |-> "method"]]
              wire == Val(pop_mapping(m.remainder, TRUE, TRUE).entry)
          IN  /\ local_auth_methods' = acc.auth
              /\ local_unknown_auth_methods' = acc.unknown
              /\ IF is_next_mapping(m.remainder, K_COOKIEFILE, TRUE, TRUE)
                 THEN /\ cookie_path' = Expanded(wire, "get_pid_by_name")
                      /\ wirePath' = wire
                      /\ resolverLog' = resolverLog
                                          \o ResolverCalls(wire, "get_pid_by_name")
                      /\ log' = log \o infos \o ExpandLog(wire, "get_pid_by_name")
                 ELSE /\ log' = log \o infos
                      /\ UNCHANGED <<cookie_path, wirePath, resolverLog>>
              /\ idx' = idx + 1
              /\ UNCHANGED <<pc, error>>
  /\ UNCHANGED <<protocol_version, tor_version>>
  /\ UNCHANGED <<loopFrame, queryVars, authVars>>

\* why a VERSION line is rejected, "" when it is not
VersionProblem(rest) ==
  IF ~is_next_mapping(rest, K_Tor, TRUE, FALSE) THEN "missing Tor"
  ELSE IF ~version_ok(pop_mapping(rest, TRUE, FALSE).entry) THEN "bad version"
  ELSE ""

\* line_type == "VERSION"
LineVersion ==
  /\ Dispatched
  /\ LineType = K_VERSION
  /\ IF VersionProblem(LineRest) # ""
     THEN /\ Raise(ProtocolError(VersionProblem(LineRest)))
          /\ UNCHANGED <<idx, tor_version>>
     ELSE /\ tor_version' = Val(Version(pop_mapping(LineRest, TRUE, FALSE).entry))
          /\ idx' = idx + 1
          /\ UNCHANGED <<pc, error>>
  /\ UNCHANGED <<protocol_version, cookie_path, local_auth_methods,
                 local_unknown_auth_methods, log, resolverLog, wirePath>>
  /\ UNCHANGED <<loopFrame, queryVars, authVars>>

\* any other line type: LOGGER.debug only
LineOtherRaises ==
  /\ Dispatched
  /\ LineType \notin {K_PROTOCOLINFO, K_AUTH, K_VERSION}
  /\ Raise(ProtocolError("unrecognized line type"))
  /\ UNCHANGED <<idx, protocol_version, tor_version, cookie_path,
                 local_auth_methods, local_unknown_auth_methods, log,
                 resolverLog, wirePath>>
  /\ UNCHANGED <<loopFrame, queryVars, authVars>>
LineOther ==
  /\ Dispatched
  /\ LineType \notin {K_PROTOCOLINFO, K_AUTH, K_VERSION}
  /\ log' = Append(log, [level |-> "debug", about |-> "line type"])
  /\ idx' = idx + 1
  /\ UNCHANGED <<pc, protocol_version, tor_version, cookie_path,
                 local_auth_methods, local_unknown_auth_methods, error,
                 resolverLog, wirePath>>
  /\ UNCHANGED <<loopFrame, queryVars, authVars>>

\* the two assignments after the loop, and convert's return
Finalize ==
  /\ pc = "finalize"
  /\ auth_methods' = Val(local_auth_methods)
  /\ unknown_auth_methods' = Val(local_unknown_auth_methods)
  /\ pc' = IF op \in QueryOps THEN "expand" ELSE "done"
  /\ returned' = IF op \in QueryOps THEN returned ELSE "message"
  /\ UNCHANGED <<op, converts, lines, msgClass, idx, protocol_version, tor_version,
                 cookie_path, local_auth_methods, local_unknown_auth_methods,
                 error, log, sys, resolverLog, wirePath, sent, recvs,
                 control_addr, get_socket, socket>>
  /\ UNCHANGED authVars

ParseNext ==
  \/ Convert
  \/ SanityCheck
  \/ Exhausted
  \/ Break
  \/ BlankLine
  \/ LineProtocolInfo
  \/ LineAuth
  \/ LineVersion
  \/ LineOther
  \/ Finalize

----------------------------------------------------------------------------
(* The replies and the process tables the checks run over *)

\* the largest number of lines of a message handed to convert
MaxLines == 3

L_PI1 == K_PROTOCOLINFO \o <<SP, "1">>
L_PI20 == K_PROTOCOLINFO \o <<SP, "2", "0">>
L_PI1x == K_PROTOCOLINFO \o <<SP, "1", "x">>
L_PI == K_PROTOCOLINFO
L_PIX == K_PROTOCOLINFO \o <<"X", SP, "1">>
L_AuthKnown == K_AUTH \o <<SP>> \o K_METHODS \o <<"=">> \o K_NULL \o <<",">>
                 \o K_HASHEDPASSWORD \o <<",">> \o K_COOKIE
L_AuthFooBar == K_AUTH \o <<SP>> \o K_METHODS \o <<"=">> \o K_NULL
                  \o <<",", "F", "O", "O", ",", "B", "A", "R">>
L_AuthCookieAbs == K_AUTH \o <<SP>> \o K_METHODS \o <<"=">> \o K_COOKIE \o <<SP>>
                     \o K_COOKIEFILE \o <<"=", DQ, "/", "t", "m", "p", "/", "x", DQ>>
L_AuthCookieRel == K_AUTH \o <<SP>> \o K_METHODS \o <<"=", "B", "A", "R", SP>>
                     \o K_COOKIEFILE \o <<"=", DQ, "x", DQ>>
L_AuthNoMethods == K_AUTH \o <<SP>> \o K_NULL
L_Version == K_VERSION \o <<SP>> \o K_Tor
               \o <<"=", DQ, "0", ".", "2", ".", "1", ".", "3", "0", DQ>>
L_VersionUnquoted == K_VERSION \o <<SP>> \o K_Tor \o <<"=", "0", ".", "2", ".", "1">>
L_VersionBad == K_VERSION \o <<SP>> \o K_Tor \o <<"=", DQ, "0", ".", "x", ".", "1", DQ>>
L_Other == <<"F", "O", "O", SP, "b", "a", "r">>

LineCatalog ==
  {L_PI1, L_PI20, L_PI1x, L_PI, L_PIX, L_AuthKnown, L_AuthFooBar,
   L_AuthCookieAbs, L_AuthCookieRel, L_AuthNoMethods, L_Version,
   L_VersionUnquoted, L_VersionBad, L_Other, K_OK, <<>>}

Messages == UNION {[1..n -> LineCatalog] : n \in 0..MaxLines}

DirA == <<"/", "a">>
DirB == <<"/", "b">>

NoCwd == [p \in {1, 2} |-> <<>>]
Cwds == [p \in {1, 2} |-> IF p = 1 THEN DirA ELSE DirB]

\* process tables as the by-name resolver can find them: no tor process, a
\* tor process whose working directory cannot be read, one where it can
NameTables ==
  {[byName |-> 0, byPort |-> 0, byFile |-> 0, cwd |-> NoCwd],
   [byName |-> 1, byPort |-> 0, byFile |-> 0, cwd |-> NoCwd],
   [byName |-> 1, byPort |-> 0, byFile |-> 0, cwd |-> Cwds]}

\* the state before any message was parsed
InitParseVars ==
  /\ converts = 0
  /\ idx = 0
  /\ protocol_version = Unassigned
  /\ tor_version = Unassigned
  /\ cookie_path = Unassigned
  /\ auth_methods = Unassigned
  /\ unknown_auth_methods = Unassigned
  /\ local_auth_methods = <<>>
  /\ local_unknown_auth_methods = <<>>
  /\ log = <<>>
  /\ resolverLog = <<>>
  /\ wirePath = None

InitNoQuery ==
  /\ control_addr = ""
  /\ get_socket = FALSE
  /\ socket = "unbound"
  /\ returned = "nothing"

InitNoAuth ==
  /\ password = <<>>
  /\ file = [exists |-> FALSE, contents |-> <<>>]
  /\ auth_cookie_size = 0
  /\ auth_cookie_contents = <<>>
  /\ handle = [state |-> "none", linked |-> FALSE, contents |-> <<>>]
  /\ reads = 0
  /\ auth_response = None
  /\ swaps = 0

\* ProtocolInfoResponse.convert(control_message), for any message and for an
\* argument that is no ControlMessage
Init ==
  /\ op = "convert"
  /\ pc = "convert"
  /\ \/ msgClass = "ControlMessage" /\ lines \in Messages
     \/ msgClass = "object" /\ lines = <<>>
  /\ sys \in NameTables
  /\ error = NoError
  /\ sent = <<>>
  /\ recvs = 0
  /\ InitParseVars
  /\ InitNoQuery
  /\ InitNoAuth

\* the most calls of convert made on one message
MaxConverts == 2

\* convert is called again on the same object, as it was left by the call
\* before
Reconvert ==
  /\ op = "convert"
  /\ pc \in {"done", "failed"}
  /\ converts < MaxConverts
  /\ pc' = "convert"
  /\ idx' = 0
  /\ error' = NoError
  /\ returned' = "nothing"
  /\ UNCHANGED <<op, converts, lines, msgClass, protocol_version, tor_version,
                 cookie_path, auth_methods, unknown_auth_methods,
                 local_auth_methods, local_unknown_auth_methods, log, sys,
                 resolverLog, wirePath, sent, recvs, control_addr, get_socket,
                 socket>>
  /\ UNCHANGED authVars

Next == ParseNext \/ Reconvert

Spec == Init /\ [][Next]_vars

----------------------------------------------------------------------------
(* get_protocolinfo_by_port and get_protocolinfo_by_socket *)

K_QUERY == K_PROTOCOLINFO \o <<SP, "1">>

\* the pid resolver the query hands to _expand_cookie_path
QueryResolver ==
  IF op = "get_protocolinfo_by_port" THEN "get_pid_by_port"
  ELSE "get_pid_by_open_file"

\* whether the query calls _expand_cookie_path after convert
QueryExpandsAlways == TRUE
QueryExpands ==
  op = "get_protocolinfo_by_socket" \/ control_addr = "127.0.0.1"

\* control_socket = ...; control_socket.connect()
Connect ==
  /\ op \in QueryOps
  /\ pc = "connect"
  /\ \/ socket' = "open" /\ pc' = "send" /\ UNCHANGED error
     \/ socket' = "new" /\ Raise(SocketError("connect"))
  /\ UNCHANGED <<op, converts, sys, sent, recvs, control_addr, get_socket, returned>>
  /\ UNCHANGED <<parseVars, authVars>>

\* control_socket.send("PROTOCOLINFO 1")
SendQuery ==
  /\ op \in QueryOps
  /\ pc = "send"
  /\ sent' = Append(sent, K_QUERY)
  /\ \/ pc' = "recv" /\ UNCHANGED error
     \/ Raise(SocketError("send"))
  /\ UNCHANGED <<op, converts, sys, recvs>>
  /\ UNCHANGED <<parseVars, queryVars, authVars>>

\* protocolinfo_response = control_socket.recv()
RecvReply ==
  /\ op \in QueryOps
  /\ pc = "recv"
  /\ recvs' = recvs + 1
  /\ \/ msgClass' = "ControlMessage" /\ pc' = "convert" /\ UNCHANGED error
     \/ Raise(SocketError("recv")) /\ UNCHANGED msgClass
     \/ Raise(ProtocolError("recv")) /\ UNCHANGED msgClass
  /\ UNCHANGED <<op, converts, sys, sent, lines, idx, protocol_version, tor_version,
                 cookie_path, auth_methods, unknown_auth_methods,
                 local_auth_methods, local_unknown_auth_methods, log,
                 resolverLog, wirePath>>
  /\ UNCHANGED <<queryVars, authVars>>

\* if control_addr == "127.0.0.1": _expand_cookie_path(...) of the port query,
\* the unconditional call of the socket query
QueryExpand ==
  /\ op \in QueryOps
  /\ pc = "expand"
  /\ IF QueryExpands
     THEN /\ cookie_path' = Expanded(cookie_path, QueryResolver)
          /\ resolverLog' = resolverLog \o ResolverCalls(cookie_path, QueryResolver)
          /\ log' = log \o ExpandLog(cookie_path, QueryResolver)
     ELSE UNCHANGED <<cookie_path, resolverLog, log>>
  /\ pc' = "return"
  /\ UNCHANGED <<op, converts, sys, sent, recvs, error, lines, msgClass, idx,
                 protocol_version, tor_version, auth_methods,
                 unknown_auth_methods, local_auth_methods,
                 local_unknown_auth_methods, wirePath>>
  /\ UNCHANGED <<queryVars, authVars>>

\* if get_socket: return (response, socket) else: close, return response
Return ==
  /\ op \in QueryOps
  /\ pc = "return"
  /\ IF get_socket
     THEN returned' = "response and socket" /\ UNCHANGED socket
     ELSE returned' = "response" /\ socket' = "closed"
  /\ pc' = "done"
  /\ UNCHANGED <<op, converts, sys, sent, recvs, error, control_addr, get_socket>>
  /\ UNCHANGED <<parseVars, authVars>>

\* except stem.socket.ControllerError, exc: control_socket.close(); raise exc
Except ==
  /\ op \in QueryOps
  /\ pc = "except"
  /\ socket' = "closed"
  /\ pc' = "failed"
  /\ UNCHANGED <<op, converts, sys, sent, recvs, error, control_addr, get_socket,
                 returned>>
  /\ UNCHANGED <<parseVars, authVars>>

\* the replies the queries are run against
QueryReplies ==
  {<<L_PI1, L_AuthCookieRel, L_Version, K_OK>>,
   <<L_PI1, L_AuthCookieAbs, K_OK>>,
   <<L_PI20, L_AuthKnown, <<>>, L_Other, K_OK>>,
   <<L_PI1, L_AuthCookieRel>>,
   <<L_PI1, L_AuthNoMethods, K_OK>>,
   <<L_PIX, K_OK>>,
   <<L_VersionBad>>,
   << >>}

\* process tables: each resolver finds no pid, pid 1 or pid 2, and the
\* working directory of either pid can be read or not
ProcessTables ==
  {[byName |-> n, byPort |-> p, byFile |-> f, cwd |-> c] :
     n \in {0, 1, 2}, p \in {0, 1, 2}, f \in {0, 1, 2},
     c \in {[q \in {1, 2} |-> IF q \in live THEN Cwds[q] ELSE <<>>] :
              live \in SUBSET {1, 2}}}

InitQuery ==
  /\ op \in QueryOps
  /\ pc = "connect"
  /\ lines \in QueryReplies
  /\ msgClass = "none"
  /\ sys \in ProcessTables
  /\ IF op = "get_protocolinfo_by_port"
     THEN control_addr \in {"127.0.0.1", "localhost"} /\ sys.byFile = 0
     ELSE control_addr = "" /\ sys.byPort = 0
  /\ get_socket \in BOOLEAN
  /\ socket = "unbound"
  /\ returned = "nothing"
  /\ error = NoError
  /\ sent = <<>>
  /\ recvs = 0
  /\ InitParseVars
  /\ InitNoAuth

QueryNext ==
  \/ Connect
  \/ SendQuery
  \/ RecvReply
  \/ ParseNext
  \/ QueryExpand
  \/ Return
  \/ Except

SpecQuery == InitQuery /\ [][QueryNext]_vars

----------------------------------------------------------------------------
(* authenticate_none, authenticate_password and authenticate_cookie *)

AuthOps == {"authenticate_none", "authenticate_password", "authenticate_cookie"}

\* the size a cookie file must have
CookieSize == 32

\* the most times another process replaces the cookie file during one call
MaxSwaps == 1

HexDigits == <<"0", "1", "2", "3", "4", "5", "6", "7", "8", "9",
               "a", "b", "c", "d", "e", "f">>

\* binascii.b2a_hex: two lower-case hex digits per byte
RECURSIVE b2a_hex(_)
b2a_hex(bytes) ==
  IF bytes = <<>> THEN <<>>
  ELSE <<HexDigits[(Head(bytes) \div 16) + 1], HexDigits[(Head(bytes) % 16) + 1]>>
         \o b2a_hex(Tail(bytes))

EscapeQuotesNone(s) == s

\* password.replace('"', '\\"')
RECURSIVE EscapeQuotes(_)
EscapeQuotes(s) ==
  IF s = <<>> THEN <<>>
  ELSE (IF Head(s) = DQ THEN <<BS, DQ>> ELSE <<Head(s)>>) \o EscapeQuotes(Tail(s))

\* the command each handshake sends
AuthCommand ==
  CASE op = "authenticate_none" -> K_AUTHENTICATE
    [] op = "authenticate_password" ->
         K_AUTHENTICATE \o <<SP, DQ>> \o EscapeQuotes(password) \o <<DQ>>
    [] op = "authenticate_cookie" ->
         K_AUTHENTICATE \o <<SP>> \o b2a_hex(auth_cookie_contents)

\* if str(auth_response) != "OK"
RejectedUnlessPrefix(response) == ~StartsWith(response, K_OK)
Rejected(response) == response # K_OK

\* if auth_cookie_size != 32
WrongSizeIfSmaller(size) == size < CookieSize
WrongSize(size) == size # CookieSize

CookieMissing(path) ==
  [type |-> "OSError", why |-> "AUTH_COOKIE_MISSING", path |-> path]
CookieWrongSize(path, size) ==
  [type |-> "ValueError", why |-> "AUTH_COOKIE_WRONG_SIZE", path |-> path,
   size |-> size]
AuthRejected(response) ==
  [type |-> "ValueError", why |-> "rejected", text |-> response]
OSError(why) == [type |-> "OSError", why |-> why]

authFrame == <<op, converts, sys, password, cookie_path, swaps>>

\* if not os.path.exists(cookie_path): raise OSError(AUTH_COOKIE_MISSING ...)
CheckExists ==
  /\ op = "authenticate_cookie"
  /\ pc = "exists"
  /\ IF ~file.exists
     THEN Raise(CookieMissing(cookie_path.v))
     ELSE pc' = "getsize" /\ UNCHANGED error
  /\ UNCHANGED <<authFrame, file, auth_cookie_size, auth_cookie_contents,
                 handle, reads, auth_response, sent, recvs>>
  /\ UNCHANGED <<lines, msgClass, idx, protocol_version, tor_version,
                 auth_methods, unknown_auth_methods, local_auth_methods,
                 local_unknown_auth_methods, log, resolverLog, wirePath>>
  /\ UNCHANGED queryVars

\* auth_cookie_size = os.path.getsize(cookie_path) and the size test; getsize
\* itself raises OSError when the file is gone by now
GetSize ==
  /\ op = "authenticate_cookie"
  /\ pc = "getsize"
  /\ IF ~file.exists
     THEN Raise(OSError("getsize")) /\ UNCHANGED auth_cookie_size
     ELSE /\ auth_cookie_size' = Len(file.contents)
          /\ IF WrongSize(Len(file.contents))
             THEN Raise(CookieWrongSize(cookie_path.v, Len(file.contents)))
             ELSE pc' = "open" /\ UNCHANGED error
  /\ UNCHANGED <<authFrame, file, auth_cookie_contents, handle, reads,
                 auth_response, sent, recvs>>
  /\ UNCHANGED <<lines, msgClass, idx, protocol_version, tor_version,
                 auth_methods, unknown_auth_methods, local_auth_methods,
                 local_unknown_auth_methods, log, resolverLog, wirePath>>
  /\ UNCHANGED queryVars

\* auth_cookie_file = open(cookie_path, "r"); an IOError becomes an OSError
OpenFile ==
  /\ op = "authenticate_cookie"
  /\ pc = "open"
  /\ \/ /\ file.exists
        /\ handle' = [state |-> "open", linked |-> TRUE,
                      contents |-> file.contents]
        /\ pc' = "read"
        /\ UNCHANGED error
     \/ Raise(OSError("IOError")) /\ UNCHANGED handle
  /\ UNCHANGED <<authFrame, file, auth_cookie_size, auth_cookie_contents,
                 reads, auth_response, sent, recvs>>
  /\ UNCHANGED <<lines, msgClass, idx, protocol_version, tor_version,
                 auth_methods, unknown_auth_methods, local_auth_methods,
                 local_unknown_auth_methods, log, resolverLog, wirePath>>
  /\ UNCHANGED queryVars

\* what read() on the handle gives: the file at cookie_path as it is now
\* while the handle is still on that file, the file the handle was opened on
\* once another process has put a new file at the path
Behind(h) == IF h.linked THEN file.contents ELSE h.contents

\* auth_cookie_contents = auth_cookie_file.read(): the whole file behind the
\* handle; an IOError becomes an OSError and leaves the handle as it is
ReadFile ==
  /\ op = "authenticate_cookie"
  /\ pc = "read"
  /\ reads' = reads + 1
  /\ \/ /\ auth_cookie_contents' = Behind(handle)
        /\ pc' = "close"
        /\ UNCHANGED error
     \/ Raise(OSError("IOError")) /\ UNCHANGED auth_cookie_contents
  /\ UNCHANGED <<authFrame, file, auth_cookie_size, handle, auth_response,
                 sent, recvs>>
  /\ UNCHANGED <<lines, msgClass, idx, protocol_version, tor_version,
                 auth_methods, unknown_auth_methods, local_auth_methods,
                 local_unknown_auth_methods, log, resolverLog, wirePath>>
  /\ UNCHANGED queryVars

\* auth_cookie_file.close()
CloseFile ==
  /\ op = "authenticate_cookie"
  /\ pc = "close"
  /\ handle' = [handle EXCEPT !.state = "closed"]
  /\ pc' = "send"
  /\ UNCHANGED <<authFrame, file, auth_cookie_size, auth_cookie_contents,
                 reads, auth_response, sent, recvs, error>>
  /\ UNCHANGED <<lines, msgClass, idx, protocol_version, tor_version,
                 auth_methods, unknown_auth_methods, local_auth_methods,
                 local_unknown_auth_methods, log, resolverLog, wirePath>>
  /\ UNCHANGED queryVars

\* control_socket.send("AUTHENTICATE ...")
AuthSend ==
  /\ op \in AuthOps
  /\ pc = "send"
  /\ sent' = Append(sent, AuthCommand)
  /\ \/ pc' = "recv" /\ UNCHANGED error
     \/ Raise(SocketError("send"))
  /\ UNCHANGED <<authFrame, file, auth_cookie_size, auth_cookie_contents,
                 handle, reads, auth_response, recvs>>
  /\ UNCHANGED <<lines, msgClass, idx, protocol_version, tor_version,
                 auth_methods, unknown_auth_methods, local_auth_methods,
                 local_unknown_auth_methods, log, resolverLog, wirePath>>
  /\ UNCHANGED queryVars

\* what tor may answer
AuthReplies ==
  {K_OK, <<"O", "K", "!">>, <<"o", "k">>, <<"B", "a", "d">>, <<>>}

\* auth_response = control_socket.recv()
AuthRecv ==
  /\ op \in AuthOps
  /\ pc = "recv"
  /\ recvs' = recvs + 1
  /\ \/ \E r \in AuthReplies :
          /\ auth_response' = Val(r)
          /\ pc' = "check"
          /\ UNCHANGED error
     \/ Raise(SocketError("recv")) /\ UNCHANGED auth_response
     \/ Raise(ProtocolError("recv")) /\ UNCHANGED auth_response
  /\ UNCHANGED <<authFrame, file, auth_cookie_size, auth_cookie_contents,
                 handle, reads, sent>>
  /\ UNCHANGED <<lines, msgClass, idx, protocol_version, tor_version,
                 auth_methods, unknown_auth_methods, local_auth_methods,
                 local_unknown_auth_methods, log, resolverLog, wirePath>>
  /\ UNCHANGED queryVars

\* if str(auth_response) != "OK": raise ValueError(str(auth_response))
AuthCheck ==
  /\ op \in AuthOps
  /\ pc = "check"
  /\ IF Rejected(auth_response.v)
     THEN Raise(AuthRejected(auth_response.v))
     ELSE pc' = "done" /\ UNCHANGED error
  /\ UNCHANGED <<authFrame, file, auth_cookie_size, auth_cookie_contents,
                 handle, reads, auth_response, sent, recvs>>
  /\ UNCHANGED <<lines, msgClass, idx, protocol_version, tor_version,
                 auth_methods, unknown_auth_methods, local_auth_methods,
                 local_unknown_auth_methods, log, resolverLog, wirePath>>
  /\ UNCHANGED queryVars

\* the cookie files: none, and files of 16, 32 and 33 bytes
Bytes(n, seed) == [i \in 1..n |-> (seed * i) % 256]

Files ==
  {[exists |-> FALSE, contents |-> <<>>],
   [exists |-> TRUE, contents |-> Bytes(16, 11)],
   [exists |-> TRUE, contents |-> Bytes(CookieSize, 7)],
   [exists |-> TRUE, contents |-> Bytes(CookieSize, 13)],
   [exists |-> TRUE, contents |-> Bytes(CookieSize + 1, 5)]}

\* another process deletes the file at cookie_path or puts another file
\* there (unlink, rename) while authenticate_cookie runs; an open handle
\* stays on the file it was opened on
ReplaceFile ==
  /\ op = "authenticate_cookie"
  /\ pc \in {"exists", "getsize", "open", "read"}
  /\ swaps < MaxSwaps
  /\ swaps' = swaps + 1
  /\ \E f \in Files : f # file /\ file' = f
  /\ handle' = IF handle.state = "open" /\ handle.linked
               THEN [handle EXCEPT !.linked = FALSE, !.contents = file.contents]
               ELSE handle
  /\ UNCHANGED <<op, converts, pc, sys, password, cookie_path, auth_cookie_size,
                 auth_cookie_contents, reads, auth_response, sent,
                 recvs, error>>
  /\ UNCHANGED <<lines, msgClass, idx, protocol_version, tor_version,
                 auth_methods, unknown_auth_methods, local_auth_methods,
                 local_unknown_auth_methods, log, resolverLog, wirePath>>
  /\ UNCHANGED queryVars

\* another process truncates the file at cookie_path and writes into it in
\* place while authenticate_cookie runs; a handle open on it reads the new
\* bytes
WriteFile ==
  /\ op = "authenticate_cookie"
  /\ pc \in {"exists", "getsize", "open", "read"}
  /\ swaps < MaxSwaps
  /\ swaps' = swaps + 1
  /\ file.exists
  /\ \E f \in Files : f.exists /\ f # file /\ file' = f
  /\ UNCHANGED <<op, converts, pc, sys, password, cookie_path, auth_cookie_size,
                 auth_cookie_contents, handle, reads, auth_response, sent,
                 recvs, error>>
  /\ UNCHANGED <<lines, msgClass, idx, protocol_version, tor_version,
                 auth_methods, unknown_auth_methods, local_auth_methods,
                 local_unknown_auth_methods, log, resolverLog, wirePath>>
  /\ UNCHANGED queryVars

Passwords ==
  {<<>>, <<"p", "w">>, <<"a", DQ, "b">>, <<DQ, DQ>>, <<BS, DQ>>}

CookiePaths == {<<"/", "c">>, <<"c">>}

InitAuth ==
  /\ op \in AuthOps
  /\ converts = 0
  /\ \/ /\ op = "authenticate_none"
        /\ pc = "send"
        /\ password = <<>>
        /\ cookie_path = None
        /\ file = [exists |-> FALSE, contents |-> <<>>]
     \/ /\ op = "authenticate_password"
        /\ pc = "send"
        /\ password \in Passwords
        /\ cookie_path = None
        /\ file = [exists |-> FALSE, contents |-> <<>>]
     \/ /\ op = "authenticate_cookie"
        /\ pc = "exists"
        /\ password = <<>>
        /\ cookie_path \in {Val(p) : p \in CookiePaths}
        /\ file \in Files
  /\ auth_cookie_size = 0
  /\ auth_cookie_contents = <<>>
  /\ handle = [state |-> "none", linked |-> FALSE, contents |-> <<>>]
  /\ reads = 0
  /\ auth_response = None
  /\ swaps = 0
  /\ sys = [byName |-> 0, byPort |-> 0, byFile |-> 0, cwd |-> NoCwd]
  /\ error = NoError
  /\ sent = <<>>
  /\ recvs = 0
  /\ lines = <<>>
  /\ msgClass = "none"
  /\ idx = 0
  /\ protocol_version = Unassigned
  /\ tor_version = Unassigned
  /\ auth_methods = Unassigned
  /\ unknown_auth_methods = Unassigned
  /\ local_auth_methods = <<>>
  /\ local_unknown_auth_methods = <<>>
  /\ log = <<>>
  /\ resolverLog = <<>>
  /\ wirePath = None
  /\ InitNoQuery

AuthNext ==
  \/ CheckExists
  \/ GetSize
  \/ OpenFile
  \/ ReadFile
  \/ CloseFile
  \/ AuthSend
  \/ AuthRecv
  \/ AuthCheck
  \/ ReplaceFile
  \/ WriteFile

SpecAuth == InitAuth /\ [][AuthNext]_vars

----------------------------------------------------------------------------
(* Properties of the parser, checked under Spec *)

\* the parse is over and convert returned
Parsed == op = "convert" /\ pc = "done"

\* the token that follows the keyword of the first line, <<>> when none does
FirstRest == pop(lines[1]).remainder
FirstTok == IF FirstRest = <<>> THEN <<>> ELSE pop(FirstRest).entry

HeaderFirst == lines # <<>> /\ pop(lines[1]).entry = K_PROTOCOLINFO

\* the first line was dispatched and accepted
FirstLineAccepted == pc = "loop" /\ idx = 2

\* C1: when the first line is PROTOCOLINFO <tok> and <tok> is all digits, the
\* first line is accepted with protocol_version = int(<tok>), whether or not
\* that is 1, and a parse that has no further PROTOCOLINFO line returns with
\* that value; when <tok> is missing or has a non-digit, the parse never gets
\* past the first line and fails with a ProtocolError.
C1_ProtocolVersion ==
  HeaderFirst =>
    IF IsDigit(FirstTok)
    THEN /\ FirstLineAccepted => protocol_version = Val(IntOf(FirstTok))
         /\ pc = "failed" => idx >= 2
         /\ (Parsed /\ \A i \in 2..Len(lines) : pop(lines[i]).entry # K_PROTOCOLINFO)
              => protocol_version = Val(IntOf(FirstTok))
    ELSE /\ idx <= 1
         /\ pc \notin {"finalize", "done"}
         /\ pc = "failed" => error.type = "ProtocolError"

C1_Witness ==
  /\ HeaderFirst
  /\ lines[1] = L_PI20
  /\ FirstLineAccepted
  /\ protocol_version = Val(20)
  /\ log = <<[level |-> "warn", about |-> "version"]>>

CountOf(seq, x) == Cardinality({i \in 1..Len(seq) : seq[i] = x})

UnknownOnceIff(auth, unknown) ==
  /\ CountOf(auth, AuthMethod.UNKNOWN) <= 1
  /\ CountOf(auth, AuthMethod.UNKNOWN) = 1 <=> unknown # <<>>

\* C2: UNKNOWN occurs at most once among the accepted methods, and it occurs
\* there exactly when some unrecognized method name was recorded: while the
\* lines are being parsed and in the attributes of every parsed reply.
C2_UnknownOnce ==
  /\ UnknownOnceIff(local_auth_methods, local_unknown_auth_methods)
  /\ Parsed => UnknownOnceIff(auth_methods.v, unknown_auth_methods.v)

C2_Witness ==
  /\ Parsed
  /\ Len(unknown_auth_methods.v) = 3
  /\ unknown_auth_methods.v[2] = unknown_auth_methods.v[3]
  /\ CountOf(auth_methods.v, AuthMethod.UNKNOWN) = 1

\* the method names of the AUTH lines among the first n lines, in wire order
RECURSIVE WireMethods(_)
WireMethods(n) ==
  IF n = 0 THEN <<>>
  ELSE WireMethods(n - 1) \o
       (IF pop(lines[n]).entry = K_AUTH
        THEN Split(pop_mapping(pop(lines[n]).remainder, FALSE, FALSE).entry, ",")
        ELSE <<>>)

Recognized(name) == name \in {K_NULL, K_HASHEDPASSWORD, K_COOKIE}
Unrecognized(name) == ~Recognized(name)
NotUnknown(m) == m # AuthMethod.UNKNOWN

MethodOf(name) ==
  CASE name = K_NULL -> "NONE"
    [] name = K_HASHEDPASSWORD -> "PASSWORD"
    [] name = K_COOKIE -> "COOKIE"

\* where UNKNOWN has to be: after the methods of the recognized names that
\* precede the first unrecognized one
RECURSIVE RecognizedBefore(_, _)
RecognizedBefore(names, k) ==
  IF k = 0 THEN 0
  ELSE RecognizedBefore(names, k - 1) + (IF Recognized(names[k]) THEN 1 ELSE 0)

FirstUnrecognized(names) ==
  CHOOSE k \in 1..Len(names) :
    Unrecognized(names[k]) /\ \A j \in 1..(k - 1) : Recognized(names[j])

\* C3: in a parsed reply the accepted methods other than UNKNOWN are the
\* methods of the recognized names (NULL -> NONE, HASHEDPASSWORD -> PASSWORD,
\* COOKIE -> COOKIE) in wire order, the unrecognized names are kept verbatim
\* in wire order, and the single UNKNOWN stands where the first unrecognized
\* name stood.
C3_MethodsInWireOrder ==
  Parsed =>
    LET names == WireMethods(idx - 1)
        known == SelectSeq(names, Recognized)
        got == SelectSeq(auth_methods.v, NotUnknown)
    IN  /\ got = [i \in 1..Len(known) |-> MethodOf(known[i])]
        /\ unknown_auth_methods.v = SelectSeq(names, Unrecognized)
        /\ (\E k \in 1..Len(names) : Unrecognized(names[k])) =>
             auth_methods.v[RecognizedBefore(names, FirstUnrecognized(names)) + 1]
               = AuthMethod.UNKNOWN

C3_Witness ==
  /\ Parsed
  /\ lines = <<L_PI1, L_AuthKnown, L_AuthFooBar>>
  /\ auth_methods = Val(<<"NONE", "PASSWORD", "COOKIE", "NONE", "UNKNOWN">>)
  /\ unknown_auth_methods = Val(<<<<"F", "O", "O">>, <<"B", "A", "R">>>>)

\* a line of a recognized type whose syntax is malformed
Malformed(line) ==
  LET type == pop(line).entry
      rest == pop(line).remainder
  IN  \/ /\ type = K_AUTH
         /\ ~is_next_mapping(rest, K_METHODS, FALSE, FALSE)
      \/ /\ type = K_VERSION
         /\ \/ ~is_next_mapping(rest, K_Tor, TRUE, FALSE)
            \/ ~version_ok(pop_mapping(rest, TRUE, FALSE).entry)
      \/ /\ type = K_PROTOCOLINFO
         /\ \/ rest = <<>>
            \/ ~IsDigit(pop(rest).entry)

\* the statement of C4 as claimed: a malformed line anywhere in the message
\* keeps convert from returning
C4_AsClaimed ==
  (op = "convert" /\ \E i \in 1..Len(lines) : Malformed(lines[i])) => pc # "done"

\* C4 (amended): a malformed line of a recognized type that no OK line
\* precedes aborts the parse: the loop never gets past it, the parse never
\* reaches its end, auth_methods and unknown_auth_methods are never
\* assigned, and the failure is a ProtocolError.
C4_MalformedAborts ==
  \A i \in 1..Len(lines) :
    (/\ op = "convert"
     /\ Malformed(lines[i])
     /\ \A j \in 1..(i - 1) : lines[j] # K_OK)
    => /\ idx <= i
       /\ pc \notin {"finalize", "done"}
       /\ auth_methods = Unassigned
       /\ unknown_auth_methods = Unassigned
       /\ pc = "failed" => error.type = "ProtocolError"

C4_Witness ==
  /\ pc = "failed"
  /\ error = ProtocolError("missing METHODS")
  /\ lines = <<L_PI1, L_Version, L_AuthNoMethods>>
  /\ idx = 3
  /\ tor_version = Val(<<0, 2, 1, 30>>)

BadFirstLine == lines = <<>> \/ pop(lines[1]).entry # K_PROTOCOLINFO

\* C5 (as claimed; the code does otherwise): a message with no lines, or whose
\* first line has a leading token other than PROTOCOLINFO, is rejected by the
\* sanity check with a ProtocolError.
C5_KeywordChecked ==
  (op = "convert" /\ msgClass = "ProtocolInfoResponse" /\ pc # "sanity"
     /\ BadFirstLine)
  => (pc = "failed" /\ error.type = "ProtocolError")

\* C6 (as claimed; the code does otherwise): whenever convert returns,
\* protocol_version is a non-negative integer.
C6_VersionPresent ==
  Parsed => (IsVal(protocol_version) /\ protocol_version.v >= 0)

----------------------------------------------------------------------------
(* Properties of the cookie path expansion, checked under SpecQuery *)

\* the query returned a reply whose AUTH line carried a relative cookie path,
\* after _expand_cookie_path ran in the parse and again in the query
ExpandedTwice ==
  /\ op \in QueryOps
  /\ pc \in {"return", "done"}
  /\ QueryExpands
  /\ IsVal(wirePath)
  /\ wirePath.v # <<>>
  /\ is_relative_path(wirePath.v)

\* what a resolver makes of the wire path when both of its lookups succeed
Resolves(resolver) ==
  ResolvePid(resolver) # 0 /\ sys.cwd[ResolvePid(resolver)] # <<>>
ResolvedBy(resolver) ==
  Val(sys.cwd[ResolvePid(resolver)] \o <<"/">> \o wirePath.v)

\* the statement of C9 as claimed: the later, port- or socket-based
\* resolution decides the final cookie_path
C9_AsClaimed ==
  (ExpandedTwice /\ Resolves(QueryResolver))
    => cookie_path = ResolvedBy(QueryResolver)

\* C9 (amended): the first resolution that succeeds wins.  When the by-name
\* resolution of the parse succeeds its absolute path stays and the query's
\* call does not consult its resolver; only when it failed does the query's
\* resolution decide: its absolute path when it succeeds, the relative wire
\* path when it fails too.
C9_FirstSuccessWins ==
  ExpandedTwice =>
    IF Resolves("get_pid_by_name")
    THEN /\ cookie_path = ResolvedBy("get_pid_by_name")
         /\ resolverLog = <<"get_pid_by_name">>
    ELSE /\ resolverLog = <<"get_pid_by_name", QueryResolver>>
         /\ cookie_path = IF Resolves(QueryResolver)
                          THEN ResolvedBy(QueryResolver)
                          ELSE wirePath

C9_Witness ==
  /\ ExpandedTwice
  /\ pc = "done"
  /\ ~Resolves("get_pid_by_name")
  /\ Resolves(QueryResolver)
  /\ cookie_path = Val(DirB \o <<"/", "x">>)
  /\ resolverLog = <<"get_pid_by_name", "get_pid_by_port">>

IsAbsolute(cp) == IsVal(cp) /\ cp.v # <<>> /\ Head(cp.v) = "/"

\* C10: a call of _expand_cookie_path on a cookie_path that is None or
\* absolute changes nothing and consults no resolver, whatever the process
\* table holds: the query's call after a parse that left such a path (among
\* them the path a successful by-name resolution produced), and the call in
\* the parse of an AUTH line whose COOKIEFILE is absolute.
C10_AbsoluteNoOp ==
  [][/\ (pc = "expand" /\ pc' = "return"
           /\ (cookie_path = None \/ IsAbsolute(cookie_path)))
          => (cookie_path' = cookie_path /\ resolverLog' = resolverLog)
     /\ (pc = "loop" /\ wirePath' # wirePath /\ IsAbsolute(wirePath'))
          => (cookie_path' = wirePath' /\ resolverLog' = resolverLog)]_vars

C10_Witness ==
  /\ pc = "return"
  /\ QueryExpands
  /\ IsVal(wirePath)
  /\ is_relative_path(wirePath.v)
  /\ IsAbsolute(cookie_path)
  /\ resolverLog = <<"get_pid_by_name">>
  /\ sys.byFile = 2
  /\ sys.cwd[2] # <<>>

----------------------------------------------------------------------------
(* Properties of the authentication handshakes, checked under SpecAuth *)

ValidationErrors == {"AUTH_COOKIE_MISSING", "AUTH_COOKIE_WRONG_SIZE"}

\* C7: in authenticate_cookie a file that is missing when it is looked for
\* fails with the missing-cookie error naming the path; a file whose size is
\* not 32 when it is measured fails with the wrong-size error carrying the
\* path and that size; after either error nothing was sent, received or
\* read and no file was opened; and whenever something was sent, received
\* or read, the measured size was 32.
C7_CookieValidated ==
  [][op = "authenticate_cookie" =>
       /\ (pc = "exists" /\ pc' # pc /\ ~file.exists)
            => (/\ pc' = "failed"
                /\ error' = [type |-> "OSError", why |-> "AUTH_COOKIE_MISSING",
                             path |-> cookie_path.v])
       /\ (pc = "getsize" /\ pc' # pc /\ file.exists /\ Len(file.contents) # 32)
            => (/\ pc' = "failed"
                /\ error' = [type |-> "ValueError",
                             why |-> "AUTH_COOKIE_WRONG_SIZE",
                             path |-> cookie_path.v,
                             size |-> Len(file.contents)])
       /\ error'.why \in ValidationErrors
            => (/\ sent' = <<>>
                /\ recvs' = 0
                /\ reads' = 0
                /\ handle'.state = "none")
       /\ (sent' # <<>> \/ recvs' > 0 \/ reads' > 0 \/ handle'.state # "none")
            => auth_cookie_size' = 32]_vars

C7_Witness ==
  /\ op = "authenticate_cookie"
  /\ pc = "failed"
  /\ error = [type |-> "ValueError", why |-> "AUTH_COOKIE_WRONG_SIZE",
              path |-> <<"/", "c">>, size |-> 16]
  /\ sent = <<>>
  /\ recvs = 0
  /\ reads = 0

Ended == pc \in {"done", "failed"}

\* the cookie validation of authenticate_cookie has passed
Validated ==
  op = "authenticate_cookie" => pc \notin {"exists", "getsize"}
                                /\ error.why \notin ValidationErrors
                                /\ error.why # "getsize"

\* the statement of C8 as claimed: every handshake that ended (for the
\* cookie handshake: after its validation passed) sent once, received once,
\* and succeeded exactly when the reply was OK
C8_AsClaimed ==
  (op \in AuthOps /\ Ended /\ Validated) =>
    /\ Len(sent) = 1
    /\ recvs = 1
    /\ IsVal(auth_response)
    /\ pc = "done" <=> auth_response = Val(K_OK)

\* C8 (amended): every handshake calls send at most once and recv at most
\* once, recv only after send; it returns only after one send and one recv
\* with the reply exactly OK; once a reply was received it ends with success
\* exactly when the reply is OK and otherwise with a ValueError carrying the
\* reply text, and nothing more is sent; a handshake that ended without a
\* transport or file error (the cookie validation passed) has sent once and
\* received once.
C8_SingleRoundTrip ==
  op \in AuthOps =>
    /\ Len(sent) <= 1
    /\ recvs <= Len(sent)
    /\ pc = "done" => (Len(sent) = 1 /\ recvs = 1 /\ auth_response = Val(K_OK))
    /\ (Ended /\ IsVal(auth_response)) =>
         /\ Len(sent) = 1
         /\ recvs = 1
         /\ IF auth_response.v = K_OK
            THEN pc = "done" /\ error = NoError
            ELSE /\ pc = "failed"
                 /\ error = [type |-> "ValueError", why |-> "rejected",
                             text |-> auth_response.v]
    /\ (Ended /\ Validated /\ error.type \notin {"SocketError", "ProtocolError", "OSError"})
         => (Len(sent) = 1 /\ recvs = 1 /\ IsVal(auth_response))

C8_Witness ==
  /\ op = "authenticate_cookie"
  /\ pc = "failed"
  /\ error = [type |-> "ValueError", why |-> "rejected", text |-> <<"O", "K", "!">>]
  /\ Len(sent) = 1
  /\ recvs = 1

----------------------------------------------------------------------------
(* Best-effort expansion, checked under SpecQuery *)

\* both lookups of a resolver succeed
LookupsSucceed(resolver) ==
  LET pid == CASE resolver = "get_pid_by_name" -> sys.byName
               [] resolver = "get_pid_by_port" -> sys.byPort
               [] resolver = "get_pid_by_open_file" -> sys.byFile
  IN  pid # 0 /\ sys.cwd[pid] # <<>>

JoinedOnCwd(resolver, path) ==
  LET pid == CASE resolver = "get_pid_by_name" -> sys.byName
               [] resolver = "get_pid_by_port" -> sys.byPort
               [] resolver = "get_pid_by_open_file" -> sys.byFile
  IN  Val(sys.cwd[pid] \o <<"/">> \o path)

IsRelative(cp) == IsVal(cp) /\ cp.v # <<>> /\ Head(cp.v) # "/"

\* the line under the loop is an AUTH line with METHODS and a COOKIEFILE
AuthLineWithCookie ==
  /\ pc = "loop"
  /\ idx <= Len(lines)
  /\ pop(lines[idx]).entry = K_AUTH
  /\ is_next_mapping(pop(lines[idx]).remainder, K_METHODS, FALSE, FALSE)
  /\ is_next_mapping(pop_mapping(pop(lines[idx]).remainder, FALSE, FALSE).remainder,
                     K_COOKIEFILE, TRUE, TRUE)

\* the fields of the reply other than cookie_path
OtherFields ==
  <<protocol_version, tor_version, auth_methods, unknown_auth_methods,
    msgClass, lines>>

\* C11: expanding a relative cookie_path is best-effort.  In the query's call
\* and in the call made while an AUTH line is parsed, when the pid lookup or
\* the working directory lookup fails the call returns normally (no error,
\* the caller goes on) with cookie_path as it was; when both succeed
\* cookie_path becomes the relative path joined onto the working directory;
\* no other field of the reply changes in either case.
C11_BestEffort ==
  [][/\ (pc = "expand" /\ pc' # pc /\ QueryExpands /\ IsRelative(cookie_path))
          => /\ pc' = "return"
             /\ error' = NoError
             /\ OtherFields' = OtherFields
             /\ cookie_path' = IF LookupsSucceed(QueryResolver)
                               THEN JoinedOnCwd(QueryResolver, cookie_path.v)
                               ELSE cookie_path
     /\ (AuthLineWithCookie /\ idx' # idx /\ IsRelative(wirePath'))
          => /\ pc' = "loop"
             /\ error' = NoError
             /\ OtherFields' = OtherFields
             /\ cookie_path' = IF LookupsSucceed("get_pid_by_name")
                               THEN JoinedOnCwd("get_pid_by_name", wirePath'.v)
                               ELSE wirePath'
     /\ (AuthLineWithCookie /\ pc' # "loop") => FALSE]_vars

C11_Witness ==
  /\ op = "get_protocolinfo_by_socket"
  /\ pc = "done"
  /\ error = NoError
  /\ cookie_path = Val(<<"x">>)
  /\ sys.byName = 1
  /\ sys.byFile = 0
  /\ resolverLog = <<"get_pid_by_name", "get_pid_by_open_file">>
  /\ log = <<[level |-> "info", about |-> "method"],
             [level |-> "debug", about |-> "cwd lookup failed"],
             [level |-> "debug", about |-> "pid lookup failed"]>>

----------------------------------------------------------------------------
(* The transport of a query, checked under SpecQuery *)

QueryEnded == op \in QueryOps /\ pc \in {"done", "failed"}

\* C12: when a query has returned or raised, its transport is closed if
\* get_socket is False; with get_socket True it is open and returned with
\* the reply after a success, and closed after a failure.
C12_TransportClosed ==
  QueryEnded =>
    IF ~get_socket
    THEN socket = "closed"
    ELSE /\ pc = "done" => socket = "open" /\ returned = "response and socket"
         /\ pc = "failed" => socket = "closed"

----------------------------------------------------------------------------
(* The cookie file of authenticate_cookie, checked under SpecAuth *)

CookieEnded == op = "authenticate_cookie" /\ pc \in {"done", "failed"}

\* C13: when authenticate_cookie has returned or raised, no file handle it
\* opened is still open, whichever way it ended (accepted, rejected, failed
\* validation, or an I/O error while reading the opened file).
C13_HandleClosed == CookieEnded => handle.state # "open"

\* C17: whenever authenticate_cookie has sent an AUTHENTICATE command, its
\* argument is the hex encoding of exactly 32 bytes read from the file, also
\* when another process replaced the file after the exists/size checks.
C17_SendsCookieSizedContents ==
  (op = "authenticate_cookie" /\ sent # <<>>)
    => /\ Len(auth_cookie_contents) = CookieSize
       /\ sent[1] = K_AUTHENTICATE \o <<SP>> \o b2a_hex(auth_cookie_contents)
       /\ Len(sent[1]) = Len(K_AUTHENTICATE) + 1 + 2 * CookieSize

----------------------------------------------------------------------------
(* The command of authenticate_password, checked under SpecAuth *)

\* the number of double quotes among the first i characters of p
QuotesUpTo(p, i) == Cardinality({j \in 1..i : p[j] = DQ})

\* arg is p with a backslash put before each double quote, said by position:
\* character i of p sits at i + QuotesUpTo(p, i), a quote has a backslash
\* right before it, and arg has no other characters
IsEscapedForm(arg, p) ==
  /\ Len(arg) = Len(p) + QuotesUpTo(p, Len(p))
  /\ \A i \in 1..Len(p) :
       /\ arg[i + QuotesUpTo(p, i)] = p[i]
       /\ p[i] = DQ => arg[i + QuotesUpTo(p, i) - 1] = BS

\* every double quote of arg has a backslash right before it
NoBareQuote(arg) ==
  \A k \in 1..Len(arg) : arg[k] = DQ => k > 1 /\ arg[k - 1] = BS

\* the text between the first and the last character of the sent command's
\* quoted argument
SentArgument ==
  SubSeq(sent[1], Len(K_AUTHENTICATE) + 3, Len(sent[1]) - 1)

\* C14: authenticate_password sends one command, AUTHENTICATE, a space and
\* the passphrase in double quotes with each double quote of the passphrase
\* replaced by backslash double-quote and every other character unchanged
\* and in order (so every double quote inside the argument follows a
\* backslash), and it returns successfully only if the reply is exactly OK.
C14_PasswordCommand ==
  op = "authenticate_password" =>
    /\ Len(sent) <= 1
    /\ sent # <<>> =>
         /\ Len(sent[1]) >= Len(K_AUTHENTICATE) + 3
         /\ SubSeq(sent[1], 1, Len(K_AUTHENTICATE) + 2)
              = K_AUTHENTICATE \o <<SP, DQ>>
         /\ sent[1][Len(sent[1])] = DQ
         /\ IsEscapedForm(SentArgument, password)
         /\ NoBareQuote(SentArgument)
    /\ pc = "done" => sent # <<>> /\ auth_response = Val(K_OK)

C14_Witness ==
  /\ op = "authenticate_password"
  /\ pc = "done"
  /\ password = <<"a", DQ, "b">>
  /\ sent = <<K_AUTHENTICATE \o <<SP, DQ, "a", BS, DQ, "b", DQ>>>>
  /\ auth_response = Val(K_OK)

----------------------------------------------------------------------------
(* The parse as a function of the reply, checked under Spec *)

\* what a parse has produced: whether it got through, the three fields, and
\* the two method lists
StartFields ==
  [ok |-> TRUE, pv |-> None, tv |-> None, cp |-> None,
   auth |-> <<>>, unknown |-> <<>>]

\* the effect of one dispatched line
StepLine(line, f) ==
  LET type == pop(line).entry
      rest == pop(line).remainder
  IN  IF type = K_PROTOCOLINFO
      THEN IF PiversionProblem(rest) # ""
           THEN [f EXCEPT !.ok = FALSE]
           ELSE [f EXCEPT !.pv = Val(Piversion(rest))]
      ELSE IF type = K_AUTH
      THEN IF ~HasMethods(rest)
           THEN [f EXCEPT !.ok = FALSE]
           ELSE LET m == pop_mapping(rest, FALSE, FALSE)
                    acc == AddMethods(Split(m.entry, ","),
                                      [auth |-> f.auth, unknown |-> f.unknown])
                    g == [f EXCEPT !.auth = acc.auth, !.unknown = acc.unknown]
                IN  IF is_next_mapping(m.remainder, K_COOKIEFILE, TRUE, TRUE)
                    THEN [g EXCEPT !.cp =
                            Expanded(Val(pop_mapping(m.remainder, TRUE, TRUE).entry),
                                     "get_pid_by_name")]
                    ELSE g
      ELSE IF type = K_VERSION
      THEN IF VersionProblem(rest) # ""
           THEN [f EXCEPT !.ok = FALSE]
           ELSE [f EXCEPT !.tv = Val(Version(pop_mapping(rest, TRUE, FALSE).entry))]
      ELSE f

\* the loop over the lines, from the fields f
RECURSIVE RunLines(_, _)
RunLines(ls, f) ==
  IF ls = <<>> \/ ~f.ok THEN f
  ELSE IF Head(ls) = K_OK THEN f
  ELSE IF is_empty(Head(ls)) THEN RunLines(Tail(ls), f)
  ELSE RunLines(Tail(ls), StepLine(Head(ls), f))

\* the outcome of parsing a whole reply
ResultOf(msg) ==
  IF msg = <<>> \/ ~IsProtocolInfoReply(msg[1])
  THEN [StartFields EXCEPT !.ok = FALSE]
  ELSE RunLines(msg, StartFields)

\* a reply without its line i
RemoveLine(msg, i) == SubSeq(msg, 1, i - 1) \o SubSeq(msg, i + 1, Len(msg))

\* convert ended as ResultOf says it does
EndsAsResultOf ==
  LET r == ResultOf(lines)
  IN  /\ pc = "done" =>
           /\ r.ok
           /\ error = NoError
           /\ protocol_version = r.pv
           /\ tor_version = r.tv
           /\ cookie_path = r.cp
           /\ auth_methods = Val(r.auth)
           /\ unknown_auth_methods = Val(r.unknown)
      /\ (pc = "failed" /\ msgClass # "object") =>
           /\ ~r.ok
           /\ error.type \in {"ProtocolError", "IndexError"}
           /\ protocol_version = r.pv
           /\ tor_version = r.tv
           /\ cookie_path = r.cp

\* a line the loop dispatches whose type is none of the three it knows
IsOtherLine(line) ==
  /\ line # K_OK
  /\ ~is_empty(line)
  /\ pop(line).entry \notin {K_PROTOCOLINFO, K_AUTH, K_VERSION}

ReplyFields ==
  <<protocol_version, tor_version, cookie_path, auth_methods,
    unknown_auth_methods, local_auth_methods, local_unknown_auth_methods>>

\* the step over a line of another type changes no field and raises nothing
OtherLineStep ==
  [][(InLoop /\ IsOtherLine(Line))
       => /\ pc' = "loop"
          /\ idx' = idx + 1
          /\ error' = error
          /\ ReplyFields' = ReplyFields]_vars

\* C15: a dispatched line whose type is none of PROTOCOLINFO, AUTH, VERSION
\* is ignored: the step over it raises nothing and changes no field, and when
\* convert has ended, its outcome (success or failure and every field) is the
\* outcome of the same reply with any such line, other than the first,
\* removed.
OtherLineRemovable ==
  (op = "convert" /\ Ended /\ msgClass # "object") =>
    /\ EndsAsResultOf
    /\ \A i \in 2..Len(lines) :
         IsOtherLine(lines[i]) => ResultOf(RemoveLine(lines, i)) = ResultOf(lines)

C15_OtherLineIgnored == []OtherLineRemovable /\ OtherLineStep

C15_Witness ==
  /\ op = "convert"
  /\ pc = "done"
  /\ lines = <<L_PI1, L_Other, L_AuthFooBar>>
  /\ protocol_version = Val(1)
  /\ auth_methods = Val(<<AuthMethod.NONE, AuthMethod.UNKNOWN>>)
  /\ unknown_auth_methods = Val(<<<<"F", "O", "O">>, <<"B", "A", "R">>>>)
  /\ ResultOf(<<L_PI1, L_AuthFooBar>>).auth = auth_methods.v
  /\ log[1] = [level |-> "debug", about |-> "line type"]


\* the place of the first OK line of a reply, 0 when it has none
FirstOK(msg) ==
  IF \E k \in 1..Len(msg) : msg[k] = K_OK
  THEN CHOOSE k \in 1..Len(msg) :
         msg[k] = K_OK /\ \A j \in 1..(k - 1) : msg[j] # K_OK
  ELSE 0

\* the lines the loop has gone past hold no OK line
NothingPastOK ==
  (pc \in {"loop", "finalize", "done", "failed"} /\ idx >= 1) =>
    /\ \A j \in 1..(idx - 1) : j <= Len(lines) => lines[j] # K_OK
    /\ FirstOK(lines) # 0 => idx <= FirstOK(lines)

\* the ended parse is the parse of the reply cut after its first OK line, and
\* of the reply without any of its empty lines after the first
CutAtOK ==
  (op = "convert" /\ Ended /\ msgClass # "object") =>
    /\ EndsAsResultOf
    /\ FirstOK(lines) # 0 =>
         ResultOf(SubSeq(lines, 1, FirstOK(lines))) = ResultOf(lines)
    /\ FirstOK(lines) > 1 =>
         (pc = "done" <=> ResultOf(SubSeq(lines, 1, FirstOK(lines) - 1)).ok)
    /\ \A i \in 2..Len(lines) :
         lines[i] = <<>> => ResultOf(RemoveLine(lines, i)) = ResultOf(lines)
    /\ (FirstOK(lines) = 0 /\ pc = "done") =>
         /\ idx = Len(lines) + 1
         /\ IsVal(auth_methods) /\ IsVal(unknown_auth_methods)
         /\ auth_methods.v = local_auth_methods
         /\ unknown_auth_methods.v = local_unknown_auth_methods

\* the OK line ends the loop with nothing changed; an empty line moves the
\* loop on with nothing changed
StopAndSkipSteps ==
  [][/\ (InLoop /\ Line = K_OK)
          => /\ pc' = "finalize"
             /\ error' = error
             /\ ReplyFields' = ReplyFields
             /\ log' = log
     /\ (InLoop /\ Line = <<>>)
          => /\ pc' = "loop"
             /\ idx' = idx + 1
             /\ error' = error
             /\ ReplyFields' = ReplyFields
             /\ log' = log
     /\ pc = "finalize"
          => /\ pc' = "done"
             /\ error' = NoError
             /\ auth_methods' = Val(local_auth_methods)
             /\ unknown_auth_methods' = Val(local_unknown_auth_methods)]_vars

\* C16: parsing stops successfully at the first line that is exactly OK: no
\* line after it is consumed, so the outcome is that of the reply cut after
\* that line, whatever follows it; empty lines before it are skipped without
\* effect; and a reply without an OK line whose lines raise nothing still
\* completes with auth_methods and unknown_auth_methods assigned.
C16_StopsAtFirstOK == []NothingPastOK /\ []CutAtOK /\ StopAndSkipSteps

C16_Witness ==
  /\ op = "convert"
  /\ pc = "done"
  /\ lines = <<L_PI1, K_OK, L_AuthNoMethods>>
  /\ idx = 2
  /\ error = NoError
  /\ auth_methods = Val(<<>>)
  /\ cookie_path = None


\* what the lines before line i have set
FieldsBefore(i) == RunLines(SubSeq(lines, 1, i - 1), StartFields)

\* C19: convert retypes its argument and resets its fields before it
\* validates anything: when the parse has raised ProtocolError the message is
\* a ProtocolInfoResponse, protocol_version, tor_version and cookie_path hold
\* what the lines before the failing one set (None otherwise), and
\* auth_methods and unknown_auth_methods were never assigned; when convert
\* has raised TypeError for an argument that is no ControlMessage, the
\* argument is as it was.
C19_MutatesBeforeValidating ==
  op = "convert" =>
    /\ pc = "sanity" =>
         /\ msgClass = "ProtocolInfoResponse"
         /\ protocol_version = None /\ tor_version = None /\ cookie_path = None
    /\ (pc = "failed" /\ error.type = "ProtocolError") =>
         /\ msgClass = "ProtocolInfoResponse"
         /\ auth_methods = Unassigned
         /\ unknown_auth_methods = Unassigned
         /\ lines # <<>>
         /\ IF idx = 0
            THEN /\ ~IsProtocolInfoReply(lines[1])
                 /\ protocol_version = None
                 /\ tor_version = None
                 /\ cookie_path = None
            ELSE /\ idx <= Len(lines)
                 /\ FieldsBefore(idx).ok
                 /\ ~StepLine(lines[idx], FieldsBefore(idx)).ok
                 /\ protocol_version = FieldsBefore(idx).pv
                 /\ tor_version = FieldsBefore(idx).tv
                 /\ cookie_path = FieldsBefore(idx).cp
    /\ (pc = "failed" /\ error.type = "TypeError") =>
         /\ msgClass = "object"
         /\ protocol_version = Unassigned
         /\ tor_version = Unassigned
         /\ cookie_path = Unassigned
         /\ auth_methods = Unassigned
         /\ unknown_auth_methods = Unassigned

C19_Witness ==
  /\ op = "convert"
  /\ pc = "failed"
  /\ error.type = "ProtocolError"
  /\ lines = <<L_PI20, L_AuthCookieAbs, L_VersionBad>>
  /\ idx = 3
  /\ msgClass = "ProtocolInfoResponse"
  /\ protocol_version = Val(20)
  /\ tor_version = None
  /\ cookie_path = Val(<<"/", "t", "m", "p", "/", "x">>)
  /\ auth_methods = Unassigned

----------------------------------------------------------------------------
(* When the queries resolve the cookie path, checked under SpecQuery *)

QueryResolvers == {"get_pid_by_port", "get_pid_by_open_file"}

\* the port query was given an address other than 127.0.0.1
OtherAddress == op = "get_protocolinfo_by_port" /\ control_addr # "127.0.0.1"

\* the query's own resolver has been consulted
QueryResolverCalled ==
  \E i \in 1..Len(resolverLog) : resolverLog[i] \in QueryResolvers

\* the step of the query between convert and the return
ResolutionStep ==
  [][(op \in QueryOps /\ pc = "expand" /\ pc' # pc)
       => /\ msgClass = "ProtocolInfoResponse"
          /\ error = NoError
          /\ IsVal(auth_methods)
          /\ socket = "open" /\ socket' = "open"
          /\ returned = "nothing" /\ returned' = "nothing"
          /\ IF OtherAddress
             THEN /\ cookie_path' = cookie_path
                  /\ resolverLog' = resolverLog
             ELSE /\ cookie_path' = Expanded(cookie_path, QueryResolver)
                  /\ resolverLog' =
                       IF IsRelative(cookie_path)
                       THEN Append(resolverLog, QueryResolver)
                       ELSE resolverLog]_vars

\* the query's resolver is consulted nowhere else
ResolvedOnlyThere ==
  [][(op \in QueryOps /\ resolverLog' # resolverLog
        /\ resolverLog'[Len(resolverLog')] \in QueryResolvers)
       => pc = "expand"]_vars

\* what the queries end with
ResolutionAtEnd ==
  op \in QueryOps =>
    /\ QueryResolverCalled =>
         /\ pc \in {"return", "done"}
         /\ error = NoError
         /\ ~OtherAddress
    /\ (pc = "done" /\ OtherAddress) => cookie_path = ResultOf(lines).cp
    /\ (pc = "done" /\ ~OtherAddress) =>
         cookie_path = Expanded(ResultOf(lines).cp, QueryResolver)
    /\ pc = "failed" => ~QueryResolverCalled

\* C18: the port query consults its port-based resolver only when
\* control_addr is exactly "127.0.0.1" and otherwise returns the cookie_path
\* parsing left; the socket query always applies its resolution; either does
\* so only in the step after convert returned successfully and while the
\* transport is still open and unreturned.
C18_WhenResolved == ResolutionStep /\ ResolvedOnlyThere /\ []ResolutionAtEnd

C18_Witness ==
  /\ op = "get_protocolinfo_by_port"
  /\ control_addr = "localhost"
  /\ pc = "done"
  /\ cookie_path = Val(<<"x">>)
  /\ sys.byName = 0
  /\ sys.byPort = 1
  /\ sys.cwd[1] # <<>>
  /\ resolverLog = <<"get_pid_by_name">>

====
